---------------------------- MODULE Spec2Model ----------------------------
(***************************************************************************)
(* A model of training_routine.py: the filtered-ranking evaluation pass    *)
(* (generate_negative_objects_for_triple, generate_negative_objects,       *)
(* measure_performance), the training step (_train_step) and the epoch     *)
(* loop (train).                                                           *)
(*                                                                         *)
(* Floats are modelled exactly: a score is an integer level or NaN, every  *)
(* other real number is a reduced fraction <<numerator, denominator>>.     *)
(* The scoring model, the loss and the DataLoader are collaborators whose  *)
(* code is not part of training_routine.py: a score vector and the         *)
(* finiteness of a loss are nondeterministic choices, and the DataLoader   *)
(* fields are modelled from their documented contract.                     *)
(***************************************************************************)
EXTENDS Integers, Sequences, FiniteSets, TLC

VARIABLES
    sr_pairs,      \* dl.sr_pairs: (s, r) -> set of training objects
    test_facts,    \* dl.get_all_facts('test'): sequence of <<s, r, o>>
    epochs,        \* train(): argument epochs
    batch_size,    \* train(): argument batch_size
    pc,            \* position of the running function
    error,         \* the exception that ended the run, or "none"
    mode,          \* model.training: "train" or "eval"
    params,        \* model parameters: "finite" or "nonfinite"
    lr,            \* optimizer learning rate, a fraction
    epoch,         \* train(): loop variable epoch
    batch,         \* _train_step(): number of batches of the epoch already drawn
    loss_val,      \* _train_step(): finiteness of the last batch's loss
    trained,       \* history: <<epoch, lr>> of every optimizer.step()
    evals,         \* history: epoch index after which each evaluation started
    i,             \* measure_performance(): number of test facts ranked
    mrr,           \* measure_performance(): accumulator mrr, a fraction
    hits_k,        \* measure_performance(): accumulator hits_k
    ranks,         \* history: the rank of every test fact of the pass
    scored,        \* history: the mode in which each scoring call ran
    result,        \* measure_performance(): returned <<mrr, hits_k>>
    arg,           \* argument of the function applied (function-level specifications)
    ret            \* its return value

vars == <<sr_pairs, test_facts, epochs, batch_size, pc, error, mode, params, lr,
          epoch, batch, loss_val, trained, evals, i, mrr, hits_k, ranks, scored,
          result, arg, ret>>

-----------------------------------------------------------------------------
(* Bounds of the model *)

NumEntities == 3

MaxScore == 1

MaxTestFacts == 2

MaxEpochs == 21

-----------------------------------------------------------------------------
(* Fractions *)

RECURSIVE GCD(_, _)
GCD(a, b) == IF b = 0 THEN a ELSE GCD(b, a % b)

Abs(a) == IF a < 0 THEN 0 - a ELSE a

Frac(n, d) ==
    LET g == GCD(Abs(n), Abs(d))
    IN  IF n = 0 THEN <<0, 1>> ELSE <<n \div g, d \div g>>

FAdd(a, b) == Frac(a[1] * b[2] + b[1] * a[2], a[2] * b[2])

FMul(a, b) == Frac(a[1] * b[1], a[2] * b[2])

FLeq(a, b) == a[1] * b[2] <= b[1] * a[2]

FLt(a, b) == a[1] * b[2] < b[1] * a[2]

RECURSIVE FSum(_)
FSum(s) == IF s = <<>> THEN <<0, 1>> ELSE FAdd(Head(s), FSum(Tail(s)))

-----------------------------------------------------------------------------
(* The DataLoader: entities, entity_to_idx, sr_pairs *)

EntityNames == <<"e0", "e1", "e2", "e3", "e4", "e5">>

entities(n) == SubSeq(EntityNames, 1, n)

entity_to_idx(e) == CHOOSE x \in 0..(Len(EntityNames) - 1) : EntityNames[x + 1] = e

Entities == 0..(NumEntities - 1)

Subjects == {0}

Relations == {0, 1}

SRPairs == Subjects \X Relations

\* Every index the training split can build: a seen pair has at least one object.
SRPairIndexes ==
    UNION {[D -> (SUBSET Entities) \ {{}}] : D \in SUBSET SRPairs}

Triples == {<<p[1], p[2], o>> : p \in SRPairs, o \in Entities}

DL(n, index) == [entities |-> entities(n), sr_pairs |-> index]

\* dl.sr_pairs[(s_idx, r_idx)]: the training objects of the pair, none for a
\* pair the training split does not hold.
objectsFor(dl, s_idx, r_idx) ==
    IF <<s_idx, r_idx>> \in DOMAIN dl.sr_pairs
    THEN dl.sr_pairs[<<s_idx, r_idx>>]
    ELSE {}

-----------------------------------------------------------------------------
(* Scores: a float is NaN (any negative number here) or a level 0..MaxScore *)

ScoreVals == (0 - 1)..MaxScore

IsNaN(x) == x < 0

\* a >= b on floats: false as soon as one side is NaN
GE(a, b) == ~IsNaN(a) /\ ~IsNaN(b) /\ a >= b

-----------------------------------------------------------------------------
(* Negative generation *)

\* Mutant: the pair is looked up with its key swapped, (r, s).
generate_negative_objects_for_triple_swapped_key(dl, s_idx, r_idx, o_idx) ==
    LET idx == [j \in 1..Len(dl.entities) |-> entity_to_idx(dl.entities[j])]
        keep(x) == x \notin objectsFor(dl, r_idx, s_idx)
    IN  SelectSeq(idx, keep)

\* Mutant: the true object is taken out of the negatives as well.
generate_negative_objects_for_triple_without_o(dl, s_idx, r_idx, o_idx) ==
    LET idx == [j \in 1..Len(dl.entities) |-> entity_to_idx(dl.entities[j])]
        keep(x) == x \notin objectsFor(dl, s_idx, r_idx) /\ x # o_idx
    IN  SelectSeq(idx, keep)

generate_negative_objects_for_triple(dl, s_idx, r_idx, o_idx) ==
    LET idx == [j \in 1..Len(dl.entities) |-> entity_to_idx(dl.entities[j])]
        keep(x) == x \notin objectsFor(dl, s_idx, r_idx)
    IN  SelectSeq(idx, keep)

generate_negative_objects(dl, facts) ==
    [j \in 1..Len(facts) |->
        generate_negative_objects_for_triple(dl, facts[j][1], facts[j][2], facts[j][3])]

\* Mutant: a tie no longer counts against the true object (> for >=).
RankAt_strict(output_i, negative, o_i) ==
    Cardinality({j \in 1..Len(negative) :
        GE(output_i[negative[j]], output_i[o_i]) /\ output_i[negative[j]] # output_i[o_i]}) + 1

\* line 70: (output[i][negative] >= output[i][o[i]]).sum().item() + 1
RankAt(output_i, negative, o_i) ==
    Cardinality({j \in 1..Len(negative) : GE(output_i[negative[j]], output_i[o_i])}) + 1


\* ks: List[int] = [1, 3, 10]
Ks == <<1, 3, 10>>

KSet == {Ks[j] : j \in 1..Len(Ks)}

\* Mutant: a hit needs rank < k.
Accumulate_strict(acc, rank) ==
    [mrr    |-> FAdd(acc.mrr, Frac(1, rank)),
     hits_k |-> [k \in KSet |-> IF rank < k THEN acc.hits_k[k] + 1 ELSE acc.hits_k[k]]]

\* lines 71-75: mrr += 1/rank; hits_k[k] += 1 for every k with rank <= k
Accumulate(acc, rank) ==
    [mrr    |-> FAdd(acc.mrr, Frac(1, rank)),
     hits_k |-> [k \in KSet |-> IF rank <= k THEN acc.hits_k[k] + 1 ELSE acc.hits_k[k]]]

\* lines 59 and 61: mrr = 0; hits_k = {k: 0 for k in ks}
ZeroAcc == [mrr |-> <<0, 1>>, hits_k |-> [k \in KSet |-> 0]]

-----------------------------------------------------------------------------
(* Values of the variables a specification does not use *)

NoCall == [fn |-> "none"]

TrainIdle ==
    /\ epochs = 0
    /\ batch_size = 1
    /\ params = "finite"
    /\ lr = <<1, 1>>
    /\ epoch = 0
    /\ batch = 0
    /\ loss_val = "none"
    /\ trained = <<>>
    /\ evals = <<>>

EvalIdle ==
    /\ test_facts = <<>>
    /\ mode = "train"
    /\ i = 0
    /\ mrr = <<0, 1>>
    /\ hits_k = ZeroAcc.hits_k
    /\ ranks = <<>>
    /\ scored = <<>>
    /\ result = <<>>

-----------------------------------------------------------------------------
(* SpecRank: one test triple ranked against one score vector, lines 66-70 *)

Outputs == [Entities -> ScoreVals]

InitRank ==
    /\ sr_pairs \in SRPairIndexes
    /\ arg \in [fn : {"rank"}, index : {sr_pairs}, fact : Triples, output : Outputs]
    /\ ret = NoCall
    /\ pc = "call"
    /\ error = "none"
    /\ TrainIdle
    /\ EvalIdle

RankTriple ==
    /\ pc = "call"
    /\ arg.fn = "rank"
    /\ LET dl == DL(NumEntities, sr_pairs)
           negatives == generate_negative_objects(dl, <<arg.fact>>)
       IN  ret' = [fn       |-> "rank",
                   negative |-> negatives[1],
                   rank     |-> RankAt(arg.output, negatives[1], arg.fact[3])]
    /\ pc' = "return"
    /\ UNCHANGED <<sr_pairs, test_facts, epochs, batch_size, error, mode, params, lr,
                   epoch, batch, loss_val, trained, evals, i, mrr, hits_k, ranks,
                   scored, result, arg>>

NextRank == RankTriple

SpecRank == InitRank /\ [][NextRank]_vars

Ranked == pc = "return" /\ ret.fn = "rank"

\* the training objects of the ranked triple's pair, and the entities left
TrueObjects == objectsFor(DL(NumEntities, sr_pairs), arg.fact[1], arg.fact[2])

NegativeSet == {ret.negative[j] : j \in 1..Len(ret.negative)}

-----------------------------------------------------------------------------
(* Claims on the rank of one triple, under SpecRank *)

\* C2: for every test triple and every score vector the rank is an integer in
\* [1, numEntities], whatever the training objects recorded for (s, r) are,
\* the empty set and a set without o included.
C2_RankInRange == Ranked => ret.rank \in 1..NumEntities

\* a pair unseen in training, every score tied: the true object and every
\* other entity count, and the rank is numEntities + 1
C2_FailingInput ==
    /\ Ranked
    /\ TrueObjects = {}
    /\ \A n \in Entities : arg.output[n] = 0
    /\ ret.rank = NumEntities + 1

\* the scenario of the specification: numEntities = 5, objectsFor(0, 1) = {2},
\* test triple (0, 1, 2); 0.05, 0.1, ... are written in hundredths
ScenarioDL == DL(5, (<<0, 1>> :> {2}))

ScenarioOutput(percent) == [n \in 0..4 |-> percent[n + 1]]

ScenarioRank(percent) ==
    RankAt(ScenarioOutput(percent),
           generate_negative_objects(ScenarioDL, << <<0, 1, 2>> >>)[1], 2)

ScenarioAcc(percent) == Accumulate(ZeroAcc, ScenarioRank(percent))

\* C3: the rank is 1 plus the number of entities n among the negatives with
\* scores[n] >= scores[o], a tie counting against the true object; in the
\* scenario, scores [0.1,0.2,0.9,0.3,0.05] give rank 1, contribution 1 and
\* hits@1 incremented, and [0.1,0.95,0.9,0.3,0.05] give rank 2, contribution
\* 1/2, hits@1 unchanged and hits@3 incremented.
C3_RankFormula ==
    /\ Ranked =>
        ret.rank = 1 + Cardinality({n \in Entities \ TrueObjects :
                                       GE(arg.output[n], arg.output[arg.fact[3]])})
    /\ ScenarioRank(<<10, 20, 90, 30, 5>>) = 1
    /\ ScenarioAcc(<<10, 20, 90, 30, 5>>).mrr = <<1, 1>>
    /\ ScenarioAcc(<<10, 20, 90, 30, 5>>).hits_k[1] = 1
    /\ ScenarioRank(<<10, 95, 90, 30, 5>>) = 2
    /\ ScenarioAcc(<<10, 95, 90, 30, 5>>).mrr = <<1, 2>>
    /\ ScenarioAcc(<<10, 95, 90, 30, 5>>).hits_k[1] = 0
    /\ ScenarioAcc(<<10, 95, 90, 30, 5>>).hits_k[3] = 1

\* the true object is a training object and exactly one negative ties it
C3_Witness ==
    /\ Ranked
    /\ arg.fact[3] \in TrueObjects
    /\ ~IsNaN(arg.output[arg.fact[3]])
    /\ \E n \in Entities \ TrueObjects :
        /\ arg.output[n] = arg.output[arg.fact[3]]
        /\ \A m \in Entities \ (TrueObjects \cup {n}) :
               ~GE(arg.output[m], arg.output[arg.fact[3]])
    /\ ret.rank = 2

\* C4: the negatives of (s, r, o) are disjoint from objectsFor(s, r) and
\* together with it they are the full entity index set; for a pair unseen in
\* training objectsFor is empty and the negatives are all the entity indices,
\* in ascending order; the lookup raises nothing and leaves the index as it was.
C4_NegativesPartition ==
    Ranked =>
        /\ NegativeSet \cap TrueObjects = {}
        /\ NegativeSet \cup TrueObjects = Entities
        /\ Len(ret.negative) = Cardinality(NegativeSet)
        /\ (<<arg.fact[1], arg.fact[2]>> \notin DOMAIN sr_pairs) =>
              /\ TrueObjects = {}
              /\ ret.negative = [j \in 1..NumEntities |-> j - 1]
        /\ error = "none"
        /\ sr_pairs = arg.index

\* an unseen pair beside a seen one
C4_Witness ==
    /\ Ranked
    /\ <<arg.fact[1], arg.fact[2]>> \notin DOMAIN sr_pairs
    /\ DOMAIN sr_pairs # {}
    /\ Len(ret.negative) = NumEntities

-----------------------------------------------------------------------------
(* SpecSmooth: the smoothed target of one training batch, lines 102-106 *)

\* list(sl.keys()): the training pairs, in the order of their relation index
RECURSIVE KeyList(_)
KeyList(keys) ==
    IF keys = {} THEN <<>>
    ELSE LET first == CHOOSE p \in keys : \A q \in keys : p[2] <= q[2]
         IN  <<first>> \o KeyList(keys \ {first})

\* torch.utils.data.DataLoader(data, batch_size): the b-th batch, b = 0, 1, ...
BatchAt(data, size, b) ==
    SubSeq(data, b * size + 1, IF (b + 1) * size < Len(data) THEN (b + 1) * size ELSE Len(data))

NumBatches(data, size) == (Len(data) + size - 1) \div size

\* data_loader.get_y: one dense 0/1 row over the entities per (s, r) of the batch
get_y(dl, pairs) ==
    [j \in 1..Len(pairs) |->
        [n \in 1..Len(dl.entities) |->
            IF entity_to_idx(dl.entities[n]) \in objectsFor(dl, pairs[j][1], pairs[j][2])
            THEN 1 ELSE 0]]

\* Mutant: the uniform mass is divided by the batch dimension, target.size(0).
Smooth_size0(target, label_smoothing_rate) ==
    [j \in 1..Len(target) |->
        [n \in 1..Len(target[j]) |->
            FAdd(FMul(FAdd(<<1, 1>>, FMul(<<0 - 1, 1>>, label_smoothing_rate)),
                      Frac(target[j][n], 1)),
                 FMul(label_smoothing_rate, Frac(1, Len(target))))]]

\* line 106: (1.0 - rate) * target + rate * (1.0 / target.size(1))
Smooth(target, label_smoothing_rate) ==
    [j \in 1..Len(target) |->
        [n \in 1..Len(target[j]) |->
            FAdd(FMul(FAdd(<<1, 1>>, FMul(<<0 - 1, 1>>, label_smoothing_rate)),
                      Frac(target[j][n], 1)),
                 FMul(label_smoothing_rate, Frac(1, Len(target[j]))))]]

\* label_smoothing_rate: 0, 0.1, 0.5 and 1
Rates == {<<0, 1>>, <<1, 10>>, <<1, 2>>, <<1, 1>>}

BatchSizes == {1, 2}

InitSmooth ==
    /\ sr_pairs \in SRPairIndexes
    /\ \E size \in BatchSizes :
       \E b \in 0..(Cardinality(SRPairs) - 1) :
          /\ b < NumBatches(KeyList(DOMAIN sr_pairs), size)
          /\ arg \in [fn : {"smooth"},
                      pairs : {BatchAt(KeyList(DOMAIN sr_pairs), size, b)},
                      rate : Rates]
    /\ ret = NoCall
    /\ pc = "call"
    /\ error = "none"
    /\ TrainIdle
    /\ EvalIdle

SmoothTarget ==
    /\ pc = "call"
    /\ arg.fn = "smooth"
    /\ LET target == get_y(DL(NumEntities, sr_pairs), arg.pairs)
       IN  ret' = [fn |-> "smooth", target |-> target, smoothed |-> Smooth(target, arg.rate)]
    /\ pc' = "return"
    /\ UNCHANGED <<sr_pairs, test_facts, epochs, batch_size, error, mode, params, lr,
                   epoch, batch, loss_val, trained, evals, i, mrr, hits_k, ranks,
                   scored, result, arg>>

NextSmooth == SmoothTarget

SpecSmooth == InitSmooth /\ [][NextSmooth]_vars

Smoothed == pc = "return" /\ ret.fn = "smooth"

\* C8: every entry of the smoothed target is (1 - eps) * target + eps / numEntities,
\* written here over the common denominator d * numEntities for eps = a / d;
\* for eps = 0 the target is unchanged, for eps = 1 every entry is
\* 1 / numEntities, whatever the true objects of the pair are.
C8_LabelSmoothing ==
    Smoothed =>
        /\ Len(ret.smoothed) = Len(arg.pairs)
        /\ \A j \in 1..Len(arg.pairs) :
           \A n \in Entities :
              LET t == IF n \in objectsFor(DL(NumEntities, sr_pairs),
                                          arg.pairs[j][1], arg.pairs[j][2])
                       THEN 1 ELSE 0
                  v == ret.smoothed[j][n + 1]
                  a == arg.rate[1]
                  d == arg.rate[2]
              IN  /\ v[1] * (d * NumEntities) = ((d - a) * t * NumEntities + a) * v[2]
                  /\ (a = 0) => v = <<t, 1>>
                  /\ (a = d) => v = <<1, NumEntities>>

\* eps = 1 on a batch row that has both true and false labels
C8_Witness ==
    /\ Smoothed
    /\ arg.rate = <<1, 1>>
    /\ Len(arg.pairs) = 2
    /\ \E n, m \in 1..NumEntities :
          /\ ret.target[1][n] = 1
          /\ ret.target[1][m] = 0
          /\ ret.smoothed[1][n] = ret.smoothed[1][m]

-----------------------------------------------------------------------------
(* measure_performance, lines 50-84 *)

\* batch_size=100 of the test loader, line 62
TestBatchSize == 100

\* the dataset the functions run on
TheDL == DL(NumEntities, sr_pairs)

\* the batch of test facts that holds fact number i (0-based)
TestBatchOf(n) == BatchAt(test_facts, TestBatchSize, n \div TestBatchSize)

TestBatchEnd(n) ==
    IF ((n \div TestBatchSize) + 1) * TestBatchSize < Len(test_facts)
    THEN ((n \div TestBatchSize) + 1) * TestBatchSize
    ELSE Len(test_facts)

\* lines 58-62: model.eval(); mrr = 0; hits_k = {k: 0}; the loader is built
MPEnter ==
    /\ pc = "mp_call"
    /\ mode' = "eval"
    /\ mrr' = ZeroAcc.mrr
    /\ hits_k' = ZeroAcc.hits_k
    /\ i' = 0
    /\ ranks' = <<>>
    /\ scored' = <<>>
    /\ result' = <<>>
    /\ pc' = "mp_loop"
    /\ UNCHANGED <<sr_pairs, test_facts, epochs, batch_size, error, params, lr, epoch,
                   batch, loss_val, trained, evals, arg, ret>>

\* lines 64-66: the next batch is drawn, scored by the model, and its
\* negatives are generated
MPScore ==
    /\ pc = "mp_loop"
    /\ i < Len(test_facts)
    /\ scored' = Append(scored, mode)
    /\ pc' = "mp_rank"
    /\ UNCHANGED <<sr_pairs, test_facts, epochs, batch_size, error, mode, params, lr,
                   epoch, batch, loss_val, trained, evals, i, mrr, hits_k, ranks,
                   result, arg, ret>>

\* line 65: the scoring call raises; nothing in measure_performance catches it
MPScoreRaises ==
    /\ pc = "mp_loop"
    /\ i < Len(test_facts)
    /\ scored' = Append(scored, mode)
    /\ error' = "ModelError"
    /\ pc' = "raised"
    /\ UNCHANGED <<sr_pairs, test_facts, epochs, batch_size, mode, params, lr, epoch,
                   batch, loss_val, trained, evals, i, mrr, hits_k, ranks, result,
                   arg, ret>>

\* lines 69-75: one row of the batch is ranked and accumulated; output ranges
\* over the rows the model can have returned for it
MPRank ==
    /\ pc = "mp_rank"
    /\ LET row == (i % TestBatchSize) + 1
           negatives == generate_negative_objects(TheDL, TestBatchOf(i))
       IN  \E rank \in {RankAt(output, negatives[row], TestBatchOf(i)[row][3]) :
                          output \in Outputs} :
              LET acc == Accumulate([mrr |-> mrr, hits_k |-> hits_k], rank)
              IN  /\ mrr' = acc.mrr
                  /\ hits_k' = acc.hits_k
                  /\ ranks' = Append(ranks, rank)
    /\ i' = i + 1
    /\ pc' = IF i + 1 < TestBatchEnd(i) THEN "mp_rank" ELSE "mp_loop"
    /\ UNCHANGED <<sr_pairs, test_facts, epochs, batch_size, error, mode, params, lr,
                   epoch, batch, loss_val, trained, evals, scored, result, arg, ret>>

\* line 78 with no test fact: mrr /= 0 raises ZeroDivisionError
MPNormaliseRaises ==
    /\ pc = "mp_loop"
    /\ i = Len(test_facts)
    /\ Len(test_facts) = 0
    /\ error' = "ZeroDivisionError"
    /\ pc' = "raised"
    /\ UNCHANGED <<sr_pairs, test_facts, epochs, batch_size, mode, params, lr, epoch,
                   batch, loss_val, trained, evals, i, mrr, hits_k, ranks, scored,
                   result, arg, ret>>

\* lines 78-81: mrr /= len(test_facts); hits_k[k] /= len(test_facts)
Normalise(acc, n) ==
    [mrr    |-> FMul(acc.mrr, Frac(1, n)),
     hits_k |-> [k \in KSet |-> Frac(acc.hits_k[k], n)]]

\* lines 78-84: normalise, model.train(), return mrr, hits_k
MPReturn ==
    /\ pc = "mp_loop"
    /\ i = Len(test_facts)
    /\ Len(test_facts) # 0
    /\ LET out == Normalise([mrr |-> mrr, hits_k |-> hits_k], Len(test_facts))
       IN  /\ mrr' = out.mrr
           /\ result' = <<out.mrr, out.hits_k>>
    /\ mode' = "train"
    /\ pc' = "mp_return"
    /\ UNCHANGED <<sr_pairs, test_facts, epochs, batch_size, error, params, lr, epoch,
                   batch, loss_val, trained, evals, i, hits_k, ranks, scored, arg, ret>>

measure_performance ==
    \/ MPEnter
    \/ MPScore
    \/ MPScoreRaises
    \/ MPRank
    \/ MPNormaliseRaises
    \/ MPReturn

\* the test splits: up to MaxTestFacts facts whose object is the first or the
\* last entity
TestTriples == {f \in Triples : f[3] \in {0, NumEntities - 1}}

TestSplits == UNION {[1..n -> TestTriples] : n \in 0..MaxTestFacts}

\* the indexes of the evaluation and training runs: the training objects are
\* among the first two entities
RunIndexes == {m \in SRPairIndexes : \A p \in DOMAIN m : m[p] \subseteq {0, 1}}

InitEval ==
    /\ sr_pairs \in RunIndexes
    /\ test_facts \in TestSplits
    /\ mode = "train"
    /\ pc = "mp_call"
    /\ error = "none"
    /\ arg = [fn |-> "measure_performance"]
    /\ ret = NoCall
    /\ i = 0
    /\ mrr = <<0, 1>>
    /\ hits_k = ZeroAcc.hits_k
    /\ ranks = <<>>
    /\ scored = <<>>
    /\ result = <<>>
    /\ TrainIdle

NextEval == measure_performance

SpecEval == InitEval /\ [][NextEval]_vars

-----------------------------------------------------------------------------
(* _train_step, lines 87-111, and train, lines 135-166 *)

\* train(): arguments lr and lr_decay
lr_arg == <<1, 10>>

lr_decay == <<1, 2>>

\* line 165: (epoch + 1) % 10 == 0
EvalCadence == 10

\* Mutant: the cadence is tested on the 0-based epoch index.
EvalDue_zero_based(e) == e % EvalCadence = 0

EvalDue(e) == (e + 1) % EvalCadence = 0

\* line 154: the loader over list(sl.keys()), the training pairs
TrainBatches == NumBatches(KeyList(DOMAIN sr_pairs), batch_size)

\* lines 144-154: the optimizer starts at lr; ExponentialLR leaves it there
TrainEnter ==
    /\ pc = "train_call"
    /\ lr' = lr_arg
    /\ epoch' = 0
    /\ pc' = "epoch"
    /\ UNCHANGED <<sr_pairs, test_facts, epochs, batch_size, error, mode, params, batch,
                   loss_val, trained, evals, i, mrr, hits_k, ranks, scored, result,
                   arg, ret>>

\* lines 155-156 and 94-95: the next epoch enters _train_step
EpochBegin ==
    /\ pc = "epoch"
    /\ epoch < epochs
    /\ batch' = 0
    /\ loss_val' = "none"
    /\ pc' = "batch"
    /\ UNCHANGED <<sr_pairs, test_facts, epochs, batch_size, error, mode, params, lr,
                   epoch, trained, evals, i, mrr, hits_k, ranks, scored, result, arg, ret>>

\* line 155: range(epochs) is exhausted and train returns
TrainReturn ==
    /\ pc = "epoch"
    /\ epoch >= epochs
    /\ pc' = "done"
    /\ UNCHANGED <<sr_pairs, test_facts, epochs, batch_size, error, mode, params, lr,
                   epoch, batch, loss_val, trained, evals, i, mrr, hits_k, ranks, scored,
                   result, arg, ret>>

\* Mutant: the learning rate is decayed with every batch.
TrainBatch_decaying ==
    /\ pc = "batch"
    /\ batch < TrainBatches
    /\ \E l \in {"finite", "nonfinite"} :
          /\ loss_val' = l
          /\ params' = IF l = "nonfinite" THEN "nonfinite" ELSE params
    /\ trained' = Append(trained, <<epoch, lr>>)
    /\ lr' = FMul(lr, lr_decay)
    /\ batch' = batch + 1
    /\ UNCHANGED <<sr_pairs, test_facts, epochs, batch_size, pc, error, mode,
                   epoch, evals, i, mrr, hits_k, ranks, scored, result, arg, ret>>

\* lines 96-110: one batch: forward, smoothed target, loss, backward,
\* optimizer.step(). Nothing tests the loss: a non-finite loss is stepped
\* into the parameters like any other.
TrainBatch ==
    /\ pc = "batch"
    /\ batch < TrainBatches
    /\ \E l \in {"finite", "nonfinite"} :
          /\ loss_val' = l
          /\ params' = IF l = "nonfinite" THEN "nonfinite" ELSE params
    /\ trained' = Append(trained, <<epoch, lr>>)
    /\ batch' = batch + 1
    /\ UNCHANGED <<sr_pairs, test_facts, epochs, batch_size, pc, error, mode, lr,
                   epoch, evals, i, mrr, hits_k, ranks, scored, result, arg, ret>>

\* lines 98-101: the forward call raises
TrainBatchRaises ==
    /\ pc = "batch"
    /\ batch < TrainBatches
    /\ error' = "ModelError"
    /\ pc' = "raised"
    /\ UNCHANGED <<sr_pairs, test_facts, epochs, batch_size, mode, params, lr, epoch,
                   batch, loss_val, trained, evals, i, mrr, hits_k, ranks, scored,
                   result, arg, ret>>

\* line 111: the loader is exhausted, the loss is printed, _train_step returns
TrainStepReturn ==
    /\ pc = "batch"
    /\ batch = TrainBatches
    /\ pc' = "lr_step"
    /\ UNCHANGED <<sr_pairs, test_facts, epochs, batch_size, error, mode, params, lr,
                   epoch, batch, loss_val, trained, evals, i, mrr, hits_k, ranks, scored,
                   result, arg, ret>>

\* line 164: lr_scheduler.step() multiplies the learning rate by gamma
LrStep ==
    /\ pc = "lr_step"
    /\ lr' = FMul(lr, lr_decay)
    /\ pc' = "cadence"
    /\ UNCHANGED <<sr_pairs, test_facts, epochs, batch_size, error, mode, params,
                   epoch, batch, loss_val, trained, evals, i, mrr, hits_k, ranks, scored,
                   result, arg, ret>>

\* lines 165-166: the epoch is a multiple of the cadence, evaluation is called
StartEval ==
    /\ pc = "cadence"
    /\ EvalDue(epoch)
    /\ evals' = Append(evals, epoch)
    /\ pc' = "mp_call"
    /\ UNCHANGED <<sr_pairs, test_facts, epochs, batch_size, error, mode, params, lr,
                   epoch, batch, loss_val, trained, i, mrr, hits_k, ranks, scored,
                   result, arg, ret>>

\* line 165: no evaluation after this epoch
SkipEval ==
    /\ pc = "cadence"
    /\ ~EvalDue(epoch)
    /\ epoch' = epoch + 1
    /\ pc' = "epoch"
    /\ UNCHANGED <<sr_pairs, test_facts, epochs, batch_size, error, mode, params, lr,
                   batch, loss_val, trained, evals, i, mrr, hits_k, ranks, scored,
                   result, arg, ret>>

\* line 166: the returned metrics are printed and the loop goes on
PrintPerformance ==
    /\ pc = "mp_return"
    /\ arg.fn = "train"
    /\ result' = <<>>
    /\ epoch' = epoch + 1
    /\ pc' = "epoch"
    /\ UNCHANGED <<sr_pairs, test_facts, epochs, batch_size, error, mode, params, lr,
                   batch, loss_val, trained, evals, i, mrr, hits_k, ranks, scored,
                   arg, ret>>

train ==
    \/ TrainEnter
    \/ EpochBegin
    \/ TrainBatch
    \/ TrainBatchRaises
    \/ TrainStepReturn
    \/ LrStep
    \/ StartEval
    \/ SkipEval
    \/ PrintPerformance
    \/ TrainReturn

\* the test splits of the training runs: at most one fact
TrainTestSplits == {s \in TestSplits : Len(s) <= 1}

Init ==
    /\ sr_pairs \in RunIndexes
    /\ test_facts \in TrainTestSplits
    /\ epochs \in 0..MaxEpochs
    /\ batch_size \in BatchSizes
    /\ pc = "train_call"
    /\ error = "none"
    /\ mode = "train"
    /\ params = "finite"
    /\ lr = <<1, 1>>
    /\ epoch = 0
    /\ batch = 0
    /\ loss_val = "none"
    /\ trained = <<>>
    /\ evals = <<>>
    /\ i = 0
    /\ mrr = <<0, 1>>
    /\ hits_k = ZeroAcc.hits_k
    /\ ranks = <<>>
    /\ scored = <<>>
    /\ result = <<>>
    /\ arg = [fn |-> "train"]
    /\ ret = NoCall

Next == train \/ measure_performance

Spec == Init /\ [][Next]_vars

-----------------------------------------------------------------------------
(* Claims on the evaluation pass, under SpecEval *)

MPEnded == pc \in {"mp_return", "raised"}

\* C1: measure_performance brackets the pass as TRAIN -> EVAL -> TRAIN: the
\* model is in eval mode at every scoring call, and it is in train mode
\* whenever measure_performance has ended, by its return or by an error raised
\* during the pass.
C1_ModeBracket ==
    /\ \A j \in 1..Len(scored) : scored[j] = "eval"
    /\ MPEnded => mode = "train"

\* the test split is empty: line 78 divides by zero and model.train() on
\* line 83 is never reached
C1_FailingInput ==
    /\ pc = "raised"
    /\ error = "ZeroDivisionError"
    /\ test_facts = <<>>
    /\ mode = "eval"

Reciprocals == [j \in 1..Len(ranks) |-> Frac(1, ranks[j])]

HitCount(k) == Cardinality({j \in 1..Len(ranks) : ranks[j] <= k})

\* C5: a completed pass returns MRR = (sum of 1/rank) / numTestTriples, in
\* (0, 1], and hitsAtK[k] = (number of triples with rank <= k) / numTestTriples,
\* in [0, 1], with hitsAtK[1] <= hitsAtK[3] <= hitsAtK[10].
C5_Metrics ==
    (pc = "mp_return") =>
        LET n == Len(test_facts)
            MRR == result[1]
            hitsAtK == result[2]
        IN  /\ Len(ranks) = n
            /\ MRR = FMul(FSum(Reciprocals), Frac(1, n))
            /\ FLt(<<0, 1>>, MRR)
            /\ FLeq(MRR, <<1, 1>>)
            /\ \A k \in KSet :
                  /\ hitsAtK[k] = Frac(HitCount(k), n)
                  /\ FLeq(<<0, 1>>, hitsAtK[k])
                  /\ FLeq(hitsAtK[k], <<1, 1>>)
            /\ FLeq(hitsAtK[1], hitsAtK[3])
            /\ FLeq(hitsAtK[3], hitsAtK[10])

\* two test triples ranked 1 and 4: MRR 5/8, hits 1/2, 1/2 and 1
C5_Witness ==
    /\ pc = "mp_return"
    /\ ranks = <<1, 4>>
    /\ result[1] = <<5, 8>>
    /\ result[2][1] = <<1, 2>>
    /\ result[2][3] = <<1, 2>>
    /\ result[2][10] = <<1, 1>>

-----------------------------------------------------------------------------
(* Claims on the epoch loop, under Spec *)

\* evaluation has been called after the current epoch
InEvaluation == pc \in {"mp_call", "mp_loop", "mp_rank", "mp_return"} \/ mode = "eval"

\* the number of epochs whose cadence test is behind
EpochsTested == IF InEvaluation THEN epoch + 1 ELSE epoch

\* the number of lr_scheduler.step() calls behind
LrSteps == IF pc = "cadence" \/ InEvaluation THEN epoch + 1 ELSE epoch

StepsOfEpoch(e) == Cardinality({j \in 1..Len(trained) : trained[j][1] = e})

\* C6: evaluation runs exactly after the 1-indexed epochs that are multiples
\* of 10: so far floor(tested epochs / 10) times, after epoch indexes 9, 19, ...;
\* a run of `epochs` epochs that returns has called it floor(epochs / 10)
\* times; and it starts only once every batch of that epoch has been trained.
C6_EvalSchedule ==
    (pc # "train_call") =>
        /\ Len(evals) = EpochsTested \div EvalCadence
        /\ \A j \in 1..Len(evals) : evals[j] = EvalCadence * j - 1
        /\ (pc = "done") => (epoch = epochs /\ Len(evals) = epochs \div EvalCadence)
        /\ InEvaluation =>
              /\ evals[Len(evals)] = epoch
              /\ batch = TrainBatches
              /\ StepsOfEpoch(epoch) = TrainBatches

\* a run of 10 epochs has returned after one evaluation, called after epoch
\* index 9 and its two batches
C6_Witness ==
    /\ pc = "done"
    /\ epochs = 10
    /\ evals = <<9>>
    /\ StepsOfEpoch(9) = 2

\* lr * lrDecay^e
Decayed(e) == Frac(lr_arg[1] * lr_decay[1]^e, lr_arg[2] * lr_decay[2]^e)

\* C7: the learning rate is decayed once per epoch, after the epoch's
\* training step: every batch of epoch index e is trained with
\* lr * lrDecay^e, and after e completed epochs the rate is lr * lrDecay^e.
C7_LrSchedule ==
    (pc # "train_call") =>
        /\ \A j \in 1..Len(trained) : trained[j][2] = Decayed(trained[j][1])
        /\ lr = Decayed(LrSteps)

\* three epochs of two batches: the last batch ran at lr / 4, the rate is lr / 8
C7_Witness ==
    /\ pc = "done"
    /\ epochs = 3
    /\ Len(trained) = 6
    /\ trained[6] = <<2, <<1, 40>>>>
    /\ lr = <<1, 80>>

\* C9: a batch with a non-finite loss aborts the epoch with a NumericalError:
\* no optimizer step is applied for it, no later batch of the epoch is
\* processed, and the epoch does not complete with corrupted parameters.
C9_AbortOnNonFinite ==
    /\ (loss_val = "nonfinite") =>
          (pc = "raised" /\ error = "NumericalError" /\ params = "finite")
    /\ (params = "nonfinite") => (pc = "raised" /\ error = "NumericalError")

\* the first batch of an epoch had a NaN loss, the second one was trained
\* all the same and the epoch ended
C9_FailingInput ==
    /\ pc = "lr_step"
    /\ params = "nonfinite"
    /\ batch = 2
    /\ error = "none"

=============================================================================
